---- MODULE Spec2Model ----
(***************************************************************************)
(* A model of the playback facade of react-native-track-player            *)
(* (src/src/trackPlayer.ts): locator resolution, the queue and metadata    *)
(* operations with their clone-before-mutate discipline, the command       *)
(* channel to the native module, the event emitter and the registration    *)
(* of the playback service.                                                *)
(*                                                                         *)
(* JavaScript values are tagged records [kind, v]: "undefined", "null",    *)
(* "number" (v the number), "string" (v an index into a string table whose *)
(* entry 0 is the empty string "") and "source" (the object the asset      *)
(* resolver returns for the bundled asset v).                              *)
(***************************************************************************)
EXTENDS Integers, Sequences, FiniteSets, TLC

VARIABLES
    assets,      \* ids of the bundled assets the resolver recognizes
    rlog,        \* resolutions made so far: <<[in, out]>>
    kind,        \* which caller-owned input the application built
    objs,        \* the caller's objects, by reference (index)
    arrs,        \* the caller's arrays, by reference (index)
    objs0,       \* the caller's objects as constructed
    arrs0,       \* the caller's arrays as constructed
    lastBy,      \* per call form, the latest facade call and what it forwarded
    calls,       \* facade calls in invocation order
    chan,        \* commands on the native command channel, in arrival order
    registry,    \* the emitter's live subscriptions
    nsubs,       \* subscription handles handed out so far
    subLog,      \* per handle: kind, listener, emissions seen before it / by its end
    emitLog,     \* emissions of the native module: <<kind>>
    invoked,     \* listener invocations: <<[sub, listener, emission]>>
    platform,    \* Platform.OS
    pc,          \* position inside registerPlaybackService
    cur,         \* the factory of the registration in progress
    tick,        \* iteration of the event loop
    immediates,  \* setImmediate queue
    headless,    \* AppRegistry's headless tasks
    factoryLog,  \* factory invocations
    handlerLog,  \* service handler invocations
    regLog       \* registrations: <<[factory, tick, returned]>>

resolveVars == <<assets, rlog>>
inputVars == <<kind, objs, arrs, objs0, arrs0, lastBy>>
cmdVars == <<calls, chan>>
eventVars == <<registry, nsubs, subLog, emitLog, invoked>>
serviceVars ==
    <<platform, pc, cur, tick, immediates, headless, factoryLog, handlerLog, regLog>>
vars == <<resolveVars, inputVars, cmdVars, eventVars, serviceVars>>

----------------------------------------------------------------------------
\* Bounds of the model.

MaxNum == 2
MaxStr == 1
MaxResolves == 3

----------------------------------------------------------------------------
\* JavaScript values.

Undef == [kind |-> "undefined", v |-> 0]
Null == [kind |-> "null", v |-> 0]
Num(n) == [kind |-> "number", v |-> n]
Str(i) == [kind |-> "string", v |-> i]
Source(n) == [kind |-> "source", v |-> n]

\* ToBoolean: undefined, null, 0 and "" are falsy.
Truthy(x) ==
    CASE x.kind = "number" -> x.v # 0
      [] x.kind = "string" -> x.v # 0
      [] x.kind = "source" -> TRUE
      [] OTHER -> FALSE

Locators ==
    {Undef} \cup {Num(n) : n \in 0..MaxNum} \cup {Str(i) : i \in 0..MaxStr}

----------------------------------------------------------------------------
\* Helpers.

\* react-native's resolveAssetSource: the source object of a registered asset
\* id, null for anything the asset registry does not know.
resolveAssetSource(path) ==
    IF path.kind = "number" /\ path.v \in assets THEN Source(path.v) ELSE Null

\* A resolution without the `|| path` fallback.
resolveImportedPathNoFallback(path) ==
    IF ~Truthy(path) THEN Undef ELSE resolveAssetSource(path)

resolveImportedPath(path) ==
    IF ~Truthy(path)
    THEN Undef
    ELSE LET r == resolveAssetSource(path) IN IF Truthy(r) THEN r ELSE path

----------------------------------------------------------------------------
\* Defaults of the parts a specification leaves alone.

IdleInput ==
    /\ kind = "none"
    /\ objs = <<>>
    /\ arrs = <<>>
    /\ objs0 = <<>>
    /\ arrs0 = <<>>
    /\ lastBy = <<>>

IdleCmd == calls = <<>> /\ chan = <<>>

IdleEvents ==
    /\ registry = <<>>
    /\ nsubs = 0
    /\ subLog = <<>>
    /\ emitLog = <<>>
    /\ invoked = <<>>

IdleService ==
    /\ platform = "ios"
    /\ pc = "idle"
    /\ cur = 0
    /\ tick = 0
    /\ immediates = <<>>
    /\ headless = <<>>
    /\ factoryLog = <<>>
    /\ handlerLog = <<>>
    /\ regLog = <<>>

----------------------------------------------------------------------------
\* Locator resolution applied to inputs drawn from Locators.

InitResolve ==
    /\ assets \in SUBSET (1..MaxNum)
    /\ rlog = <<>>
    /\ IdleInput /\ IdleCmd /\ IdleEvents /\ IdleService

Resolve(path) ==
    /\ Len(rlog) < MaxResolves
    /\ rlog' = Append(rlog, [in |-> path, out |-> resolveImportedPath(path)])
    /\ UNCHANGED <<assets, inputVars, cmdVars, eventVars, serviceVars>>

NextResolve == \E path \in Locators : Resolve(path)

SpecResolve == InitResolve /\ [][NextResolve]_vars

\* C6: resolution agrees with the reference: a falsy locator (undefined, 0, "")
\* yields undefined; a non-empty string is returned unchanged; an asset id the
\* resolver recognizes yields the resolver's source object; an asset id it does
\* not recognize is returned unchanged; every resolution yields one of these.
ResolveReference(e) ==
    /\ (e.in = Undef \/ e.in = Num(0) \/ e.in = Str(0)) => e.out = Undef
    /\ (e.in.kind = "string" /\ e.in.v # 0) => e.out = e.in
    /\ (e.in.kind = "number" /\ e.in.v # 0 /\ e.in.v \in assets)
          => e.out = Source(e.in.v)
    /\ (e.in.kind = "number" /\ e.in.v # 0 /\ e.in.v \notin assets)
          => e.out = e.in
    /\ e.out \in {Undef, e.in, Source(e.in.v)}

C6_ResolutionMatchesReference ==
    \A i \in 1..Len(rlog) : ResolveReference(rlog[i])

C6_Witness ==
    /\ \E i \in 1..Len(rlog) : rlog[i].in = Str(0) /\ rlog[i].out = Undef
    /\ \E i \in 1..Len(rlog) :
          rlog[i].in.kind = "number" /\ rlog[i].out.kind = "source"
    /\ \E i \in 1..Len(rlog) :
          /\ rlog[i].in.kind = "number" /\ rlog[i].in.v # 0
          /\ rlog[i].out = rlog[i].in

----------------------------------------------------------------------------
\* The JavaScript heap during one facade call.  A machine m holds the objects
\* and the arrays by reference: m.objs[r] is the object (a function from field
\* names to values) behind Obj(r), m.arrs[r] the elements behind Arr(r).  The
\* caller's own objects and arrays are the first Len(objs) and Len(arrs) ones;
\* whatever a call allocates comes after them and is dropped when it returns.

MaxObjs == 1
MaxLen == 2
MaxIdx == 1

Obj(r) == [kind |-> "object", v |-> r]
Arr(r) == [kind |-> "array", v |-> r]
IsArray(x) == x.kind = "array"

Get(o, f) == IF f \in DOMAIN o THEN o[f] ELSE Undef
Put(o, f, x) == [g \in DOMAIN o \cup {f} |-> IF g = f THEN x ELSE o[g]]
EmptyObject == [g \in {} |-> Undef]

NewMachine == [objs |-> objs, arrs |-> arrs]

AllocArray(m, s) ==
    [m |-> [m EXCEPT !.arrs = Append(@, s)], ref |-> Arr(Len(m.arrs) + 1)]

AllocObject(m, o) ==
    [m |-> [m EXCEPT !.objs = Append(@, o)], ref |-> Obj(Len(m.objs) + 1)]

\* [...tracks]
CloneArray(m, a) == AllocArray(m, m.arrs[a.v])

\* [tracks]
ArrayOf(m, x) == AllocArray(m, <<x>>)

\* An object used in place, not copied.
AliasObject(m, o) == [m |-> m, ref |-> o]

\* { ...x } and Object.assign({}, x)
CloneObject(m, o) == AllocObject(m, m.objs[o.v])

SetElem(m, a, i, x) == [m EXCEPT !.arrs[a.v][i] = x]
SetField(m, o, f, x) == [m EXCEPT !.objs[o.v] = Put(@, f, x)]
GetField(m, o, f) == Get(m.objs[o.v], f)

\* What crosses the bridge is a copy by value.
SerializeItem(m, x) == IF x.kind = "object" THEN m.objs[x.v] ELSE x
Serialize(m, x) ==
    IF IsArray(x)
    THEN [i \in 1..Len(m.arrs[x.v]) |-> SerializeItem(m, m.arrs[x.v][i])]
    ELSE SerializeItem(m, x)

Command(op, args) == [op |-> op, args |-> args]

\* A default parameter of 0 whatever the declared default.
DefaultZero(arg, default) == IF arg = Undef THEN Num(0) ELSE arg

\* A default parameter value applies when the argument is undefined.
DefaultArg(arg, default) == IF arg = Undef THEN default ELSE arg

----------------------------------------------------------------------------
\* Queue API.  Each operator is one function body run on machine m: it yields
\* the machine afterwards, the commands it handed to the native module (sent)
\* and how its promise settles: "undefined" (resolved at once, with no value)
\* or "native" (it adopts the promise of the native call).

RECURSIVE AddLoop(_, _, _)
AddLoop(m, tracks, i) ==
    IF i > Len(m.arrs[tracks.v])
    THEN m
    ELSE LET c == CloneObject(m, m.arrs[tracks.v][i])
             m1 == SetElem(c.m, tracks, i, c.ref)
             m2 == SetField(m1, m1.arrs[tracks.v][i], "url",
                      resolveImportedPath(GetField(m1, m1.arrs[tracks.v][i], "url")))
             m3 == SetField(m2, m2.arrs[tracks.v][i], "artwork",
                      resolveImportedPath(GetField(m2, m2.arrs[tracks.v][i], "artwork")))
         IN AddLoop(m3, tracks, i + 1)

\* add without its early return on an empty array.
AddNoEmptyCheck(m, tracksArg, insertBeforeIndexArg) ==
    LET insertBeforeIndex == DefaultArg(insertBeforeIndexArg, Num(-1))
        t == IF IsArray(tracksArg)
             THEN CloneArray(m, tracksArg)
             ELSE ArrayOf(m, tracksArg)
        m2 == AddLoop(t.m, t.ref, 1)
    IN [m |-> m2,
        sent |-> <<Command("add", <<Serialize(m2, t.ref), insertBeforeIndex>>)>>,
        ret |-> "native"]

add(m, tracksArg, insertBeforeIndexArg) ==
    LET insertBeforeIndex == DefaultArg(insertBeforeIndexArg, Num(-1))
        t == IF IsArray(tracksArg)
             THEN CloneArray(m, tracksArg)
             ELSE ArrayOf(m, tracksArg)
    IN IF Len(t.m.arrs[t.ref.v]) < 1
       THEN [m |-> t.m, sent |-> <<>>, ret |-> "undefined"]
       ELSE LET m2 == AddLoop(t.m, t.ref, 1)
            IN [m |-> m2,
                sent |-> <<Command("add",
                             <<Serialize(m2, t.ref), insertBeforeIndex>>)>>,
                ret |-> "native"]

RECURSIVE Dedupe(_)
Dedupe(s) ==
    IF s = <<>>
    THEN <<>>
    ELSE LET rest == Dedupe(Tail(s))
         IN IF \E i \in 1..Len(rest) : rest[i] = Head(s)
            THEN rest
            ELSE <<Head(s)>> \o rest

\* remove forwarding each index once.
RemoveDeduped(m, tracksArg) ==
    LET t == IF ~IsArray(tracksArg)
             THEN ArrayOf(m, tracksArg)
             ELSE [m |-> m, ref |-> tracksArg]
    IN [m |-> t.m,
        sent |-> <<Command("remove", <<Dedupe(Serialize(t.m, t.ref))>>)>>,
        ret |-> "native"]

remove(m, tracksArg) ==
    LET t == IF ~IsArray(tracksArg)
             THEN ArrayOf(m, tracksArg)
             ELSE [m |-> m, ref |-> tracksArg]
    IN [m |-> t.m,
        sent |-> <<Command("remove", <<Serialize(t.m, t.ref)>>)>>,
        ret |-> "native"]

----------------------------------------------------------------------------
\* Control Center / Notifications API.

IconFields ==
    <<"icon", "playIcon", "pauseIcon", "stopIcon",
      "previousIcon", "nextIcon", "rewindIcon", "forwardIcon">>

RECURSIVE ResolveFields(_, _, _, _)
ResolveFields(m, o, fields, i) ==
    IF i > Len(fields)
    THEN m
    ELSE ResolveFields(
             SetField(m, o, fields[i], resolveImportedPath(GetField(m, o, fields[i]))),
             o, fields, i + 1)

updateOptions(m, optionsArg) ==
    LET d == IF optionsArg = Undef
             THEN AllocObject(m, EmptyObject)
             ELSE [m |-> m, ref |-> optionsArg]
        c == CloneObject(d.m, d.ref)
        m2 == ResolveFields(c.m, c.ref, IconFields, 1)
    IN [m |-> m2,
        sent |-> <<Command("updateOptions", <<Serialize(m2, c.ref)>>)>>,
        ret |-> "native"]

updateMetadataForTrack(m, trackIndex, metadataArg) ==
    LET c == CloneObject(m, metadataArg)
        m2 == SetField(c.m, c.ref, "artwork",
                 resolveImportedPath(GetField(c.m, c.ref, "artwork")))
    IN [m |-> m2,
        sent |-> <<Command("updateMetadataForTrack",
                     <<trackIndex, Serialize(m2, c.ref)>>)>>,
        ret |-> "native"]

updateNowPlayingMetadata(m, metadataArg) ==
    LET c == CloneObject(m, metadataArg)
        m2 == SetField(c.m, c.ref, "artwork",
                 resolveImportedPath(GetField(c.m, c.ref, "artwork")))
    IN [m |-> m2,
        sent |-> <<Command("updateNowPlayingMetadata", <<Serialize(m2, c.ref)>>)>>,
        ret |-> "native"]


----------------------------------------------------------------------------
\* The application builds one input (Track objects and an array of them, an
\* array of queue indices, an options object, or a metadata object) and calls
\* the facade with it, any number of times.

\* Asset 1 is bundled; the locators of an input are absent, 0, the asset, a URL.
InputLocators == {Undef, Num(0), Num(1), Str(1)}

TrackObjects ==
    {[g \in {"url", "artwork", "title"} |->
         CASE g = "url" -> u [] g = "artwork" -> a [] OTHER -> Str(1)] :
       u \in InputLocators, a \in InputLocators}

MetadataObjects ==
    {[title |-> Str(1)]} \cup {[title |-> Str(1), artwork |-> a] : a \in InputLocators}

IconNames == {IconFields[i] : i \in 1..Len(IconFields)}

OptionsObjects ==
    {EmptyObject}
      \cup {[g \in {"color", f} |-> IF g = f THEN x ELSE Num(1)] :
              f \in IconNames, x \in InputLocators}
      \cup {[g \in IconNames |-> x] : x \in InputLocators}

SeqsUpTo(S, n) == UNION {[1..k -> S] : k \in 0..n}

IndexArgs == {Undef} \cup {Num(i) : i \in 0..MaxIdx}

NoCall == [made |-> FALSE, args |-> <<>>, sent |-> <<>>, ret |-> "none"]
Forms ==
    {"add1", "addN", "remove1", "removeN", "updateOptions",
     "updateMetadataForTrack", "updateNowPlayingMetadata"}

InitInput ==
    /\ assets = {1}
    /\ rlog = <<>>
    /\ \/ /\ kind = "tracks"
          /\ \E n \in 1..MaxObjs : objs \in [1..n -> TrackObjects]
          /\ \E s \in SeqsUpTo({Obj(r) : r \in 1..Len(objs)}, MaxLen) : arrs = <<s>>
       \/ /\ kind = "indices"
          /\ objs = <<>>
          /\ \E s \in SeqsUpTo({Num(i) : i \in 0..MaxIdx}, MaxLen) : arrs = <<s>>
       \/ /\ kind = "options"
          /\ \E o \in OptionsObjects : objs = <<o>>
          /\ arrs = <<>>
       \/ /\ kind = "metadata"
          /\ \E o \in MetadataObjects : objs = <<o>>
          /\ arrs = <<>>
    /\ objs0 = objs
    /\ arrs0 = arrs
    /\ lastBy = [f \in Forms |-> NoCall]
    /\ IdleCmd /\ IdleEvents /\ IdleService

\* The call returns: the caller keeps its own objects and arrays, in whatever
\* state the call left them; form records the call and what it forwarded.
Returned(form, args, r) ==
    /\ objs' = SubSeq(r.m.objs, 1, Len(objs))
    /\ arrs' = SubSeq(r.m.arrs, 1, Len(arrs))
    /\ lastBy' = [lastBy EXCEPT ![form] =
                     [made |-> TRUE, args |-> args, sent |-> r.sent, ret |-> r.ret]]
    /\ UNCHANGED <<kind, objs0, arrs0, resolveVars, cmdVars, eventVars, serviceVars>>

CallAddTrack(r, idx) ==
    /\ kind = "tracks"
    /\ r \in 1..Len(objs)
    /\ Returned("add1", <<Obj(r), idx>>, add(NewMachine, Obj(r), idx))

CallAddTracks(idx) ==
    /\ kind = "tracks"
    /\ Returned("addN", <<Arr(1), idx>>, add(NewMachine, Arr(1), idx))

CallRemoveIndex(i) ==
    /\ kind = "indices"
    /\ Returned("remove1", <<Num(i)>>, remove(NewMachine, Num(i)))

CallRemoveIndices ==
    /\ kind = "indices"
    /\ Returned("removeN", <<Arr(1)>>, remove(NewMachine, Arr(1)))

CallUpdateOptions(arg) ==
    /\ kind = "options"
    /\ Returned("updateOptions", <<arg>>, updateOptions(NewMachine, arg))

CallUpdateMetadataForTrack(i) ==
    /\ kind = "metadata"
    /\ Returned("updateMetadataForTrack", <<Num(i), Obj(1)>>,
                updateMetadataForTrack(NewMachine, Num(i), Obj(1)))

CallUpdateNowPlayingMetadata ==
    /\ kind = "metadata"
    /\ Returned("updateNowPlayingMetadata", <<Obj(1)>>,
                updateNowPlayingMetadata(NewMachine, Obj(1)))

NextInput ==
    \/ \E r \in 1..MaxObjs, idx \in IndexArgs : CallAddTrack(r, idx)
    \/ \E idx \in IndexArgs : CallAddTracks(idx)
    \/ \E i \in 0..MaxIdx : CallRemoveIndex(i)
    \/ CallRemoveIndices
    \/ \E arg \in {Undef, Obj(1)} : CallUpdateOptions(arg)
    \/ \E i \in 0..MaxIdx : CallUpdateMetadataForTrack(i)
    \/ CallUpdateNowPlayingMetadata

SpecInput == InitInput /\ [][NextInput]_vars

\* C3: after any facade call with caller-owned input (add, updateOptions,
\* updateMetadataForTrack, updateNowPlayingMetadata) the caller's array has the
\* same length and the same element identities, and every field of every
\* caller object, url and artwork included, has the value it was built with.
C3_CallerInputUnmodified == objs = objs0 /\ arrs = arrs0

\* An add forwarded a track whose url or artwork differs from the caller's.
C3_Witness ==
    /\ kind = "tracks"
    /\ lastBy["addN"].made
    /\ Len(arrs[1]) = MaxLen
    /\ Len(lastBy["addN"].sent) = 1
    /\ lastBy["addN"].sent[1].args[1][1] # objs[arrs[1][1].v]

\* The copy of track t that add forwards: url and artwork resolved.
ResolvedTrack(t) ==
    [g \in DOMAIN t |->
        IF g \in {"url", "artwork"} THEN resolveImportedPath(t[g]) ELSE t[g]]

IndexOrAppend(idx) == IF idx = Undef THEN Num(-1) ELSE idx

\* C7: add(t, i) and add([t], i) forward an identical payload: the one-element
\* sequence holding a copy of t with url and artwork resolved, and the index i,
\* which is -1 when the argument is omitted.
C7_SingleTrackSameAsOneElementArray ==
    LET one == lastBy["add1"]
        many == lastBy["addN"]
        expected(t, idx) ==
            <<Command("add", <<<<ResolvedTrack(t)>>, IndexOrAppend(idx)>>)>>
    IN /\ one.made => one.sent = expected(objs0[one.args[1].v], one.args[2])
       /\ (many.made /\ Len(arrs0[1]) = 1)
             => many.sent = expected(objs0[arrs0[1][1].v], many.args[2])
       /\ (one.made /\ many.made /\ arrs0[1] = <<one.args[1]>>
             /\ one.args[2] = many.args[2])
             => one.sent = many.sent

\* Both forms were called with the same track and index, the index omitted,
\* and resolution changed the track.
C7_Witness ==
    /\ kind = "tracks"
    /\ lastBy["add1"].made /\ lastBy["addN"].made
    /\ arrs0[1] = <<lastBy["add1"].args[1]>>
    /\ lastBy["add1"].args[2] = Undef /\ lastBy["addN"].args[2] = Undef
    /\ lastBy["addN"].sent[1].args[1][1] # objs0[1]

\* C8: remove(i) and remove([i]) forward the identical one-element sequence;
\* remove(s) forwards the same elements in the same order with the same
\* duplicates; every remove hands exactly one command to the native module.
C8_RemoveForwardsIndicesAsGiven ==
    LET one == lastBy["remove1"]
        many == lastBy["removeN"]
    IN /\ one.made => one.sent = <<Command("remove", <<<<one.args[1]>>>>)>>
       /\ many.made => many.sent = <<Command("remove", <<arrs0[1]>>)>>
       /\ (one.made /\ many.made /\ arrs0[1] = <<one.args[1]>>)
             => one.sent = many.sent

\* A sequence holding the same index twice was forwarded, and remove(i) too.
C8_Witness ==
    /\ kind = "indices"
    /\ lastBy["remove1"].made /\ lastBy["removeN"].made
    /\ Len(arrs0[1]) = 2 /\ arrs0[1][1] = arrs0[1][2]
    /\ lastBy["removeN"].sent[1].args[1] = arrs0[1]


----------------------------------------------------------------------------
\* The remaining queue and player operations: each forwards its arguments in
\* one call of the native method of the same name and returns its promise.

removeUpcomingTracks(m) ==
    [m |-> m, sent |-> <<Command("removeUpcomingTracks", <<>>)>>, ret |-> "native"]

skip(m, trackIndex, initialPositionArg) ==
    [m |-> m,
     sent |-> <<Command("skip",
                  <<trackIndex, DefaultArg(initialPositionArg, Num(-1))>>)>>,
     ret |-> "native"]

skipToNext(m, initialPositionArg) ==
    [m |-> m,
     sent |-> <<Command("skipToNext", <<DefaultArg(initialPositionArg, Num(-1))>>)>>,
     ret |-> "native"]

skipToPrevious(m, initialPositionArg) ==
    [m |-> m,
     sent |-> <<Command("skipToPrevious",
                  <<DefaultArg(initialPositionArg, Num(-1))>>)>>,
     ret |-> "native"]

\* reset, play, pause, seekTo, setVolume, setRate, setRepeatMode and the
\* getters: return TrackPlayer.<op>(<args>).
Delegate(m, op, args) ==
    [m |-> m, sent |-> <<Command(op, args)>>, ret |-> "native"]

setRepeatMode(m, mode) == Delegate(m, "setRepeatMode", <<mode>>)

----------------------------------------------------------------------------
\* Facade calls and the native command channel.  A facade function runs to
\* its return without yielding: the call is logged, its commands reach the
\* channel, and its promise is pending until the native module replies.  The
\* native module replies to the commands it holds in any order.

MaxCalls == 2
MaxReply == 3

RepeatMode == [Off |-> Num(0), Track |-> Num(1), Queue |-> Num(2)]
RepeatModes == {RepeatMode.Off, RepeatMode.Track, RepeatMode.Queue}

Failure(e) == [kind |-> "error", v |-> e]
NoReply == [st |-> "none", v |-> Undef]
Ok(x) == [st |-> "ok", v |-> x]
Err(e) == [st |-> "err", v |-> Failure(e)]

\* What the application passes in these runs: one Track, an empty array, an
\* array of that Track, and an array of indices.
SampleTrack == [url |-> Num(1), artwork |-> Str(0), title |-> Str(1)]
CmdMachine ==
    [objs |-> <<SampleTrack>>, arrs |-> << <<>>, <<Obj(1)>>, <<Num(1), Num(1)>> >>]

AddCalls ==
    {<<Obj(1), Undef>>, <<Arr(1), Undef>>, <<Arr(1), Num(0)>>, <<Arr(2), Num(0)>>}
RemoveCalls == {Num(0), Arr(3)}
DelegatedCalls ==
    {<<"reset", <<>>>>, <<"play", <<>>>>, <<"pause", <<>>>>,
     <<"seekTo", <<Num(1)>>>>, <<"setVolume", <<Num(1)>>>>,
     <<"setRate", <<Num(1)>>>>, <<"setRepeatMode", <<RepeatMode.Track>>>>,
     <<"getVolume", <<>>>>, <<"getRate", <<>>>>, <<"getTrack", <<Num(0)>>>>,
     <<"getQueue", <<>>>>, <<"getCurrentTrack", <<>>>>, <<"getDuration", <<>>>>,
     <<"getBufferedPosition", <<>>>>, <<"getPosition", <<>>>>,
     <<"getState", <<>>>>, <<"getRepeatMode", <<>>>>}
Replies == {Ok(Num(1)), Ok(Num(3)), Err(1)}
ModeReplies == {Ok(Num(n)) : n \in 0..MaxReply} \cup {Err(1)}

\* A command put ahead of the ones already on the channel.
SendFirst(ch, cmd) == <<cmd>> \o ch

\* The bridge call TrackPlayer.<op>(...): the command joins the channel.
Send(ch, cmd) == Append(ch, cmd)

RECURSIVE SendAll(_, _, _, _)
SendAll(ch, call, cmds, i) ==
    IF i > Len(cmds)
    THEN ch
    ELSE SendAll(
             Send(ch, [call |-> call, op |-> cmds[i].op, args |-> cmds[i].args,
                       reply |-> NoReply]),
             call, cmds, i + 1)

\* A promise that replaces a value that is no repeat mode by RepeatMode.Off.
AdoptValidated(reply) ==
    IF reply.st = "ok"
    THEN [st |-> "resolved",
          val |-> IF reply.v \in RepeatModes THEN reply.v ELSE RepeatMode.Off]
    ELSE [st |-> "rejected", val |-> reply.v]

\* A promise that swallows the failure and resolves with undefined.
AdoptWithFallback(reply) ==
    IF reply.st = "ok"
    THEN [st |-> "resolved", val |-> reply.v]
    ELSE [st |-> "resolved", val |-> Undef]

\* An async function that returns the native promise settles as it does.
Adopt(reply) ==
    IF reply.st = "ok"
    THEN [st |-> "resolved", val |-> reply.v]
    ELSE [st |-> "rejected", val |-> reply.v]

InitCmd ==
    /\ assets = {1}
    /\ rlog = <<>>
    /\ calls = <<>>
    /\ chan = <<>>
    /\ IdleInput /\ IdleEvents /\ IdleService

Invoke(op, args, r) ==
    /\ calls' = Append(calls,
                   [op |-> op, args |-> args,
                    st |-> IF r.ret = "undefined" THEN "resolved" ELSE "pending",
                    val |-> Undef])
    /\ chan' = SendAll(chan, Len(calls) + 1, r.sent, 1)
    /\ UNCHANGED <<resolveVars, inputVars, eventVars, serviceVars>>

CmdAdd(tracks, idx) ==
    /\ Len(calls) < MaxCalls
    /\ Invoke("add", <<Serialize(CmdMachine, tracks), idx>>,
              add(CmdMachine, tracks, idx))

CmdRemove(tracks) ==
    /\ Len(calls) < MaxCalls
    /\ Invoke("remove", <<Serialize(CmdMachine, tracks)>>, remove(CmdMachine, tracks))

CmdRemoveUpcomingTracks ==
    /\ Len(calls) < MaxCalls
    /\ Invoke("removeUpcomingTracks", <<>>, removeUpcomingTracks(CmdMachine))

CmdSkip(trackIndex, initialPosition) ==
    /\ Len(calls) < MaxCalls
    /\ Invoke("skip", <<trackIndex, initialPosition>>,
              skip(CmdMachine, trackIndex, initialPosition))

CmdSkipToNext(initialPosition) ==
    /\ Len(calls) < MaxCalls
    /\ Invoke("skipToNext", <<initialPosition>>,
              skipToNext(CmdMachine, initialPosition))

CmdSkipToPrevious(initialPosition) ==
    /\ Len(calls) < MaxCalls
    /\ Invoke("skipToPrevious", <<initialPosition>>,
              skipToPrevious(CmdMachine, initialPosition))

CmdDelegated(op, args) ==
    /\ Len(calls) < MaxCalls
    /\ Invoke(op, args, Delegate(CmdMachine, op, args))

CmdSetRepeatMode(mode) ==
    /\ Len(calls) < MaxCalls
    /\ Invoke("setRepeatMode", <<mode>>, setRepeatMode(CmdMachine, mode))

\* The native module settles command j; the facade promise that adopted the
\* native promise settles with it.
NativeReply(j, reply) ==
    /\ j \in 1..Len(chan)
    /\ chan[j].reply = NoReply
    /\ chan' = [chan EXCEPT ![j].reply = reply]
    /\ calls' = [calls EXCEPT ![chan[j].call] =
                    [@ EXCEPT !.st = Adopt(reply).st, !.val = Adopt(reply).val]]
    /\ UNCHANGED <<resolveVars, inputVars, eventVars, serviceVars>>

NextCmd ==
    \/ \E a \in AddCalls : CmdAdd(a[1], a[2])
    \/ \E t \in RemoveCalls : CmdRemove(t)
    \/ CmdRemoveUpcomingTracks
    \/ CmdSkip(Num(0), Undef)
    \/ CmdSkipToNext(Undef)
    \/ CmdSkipToPrevious(Num(1))
    \/ \E d \in DelegatedCalls : CmdDelegated(d[1], d[2])
    \/ \E j \in 1..MaxCalls, reply \in Replies : NativeReply(j, reply)

SpecCmd == InitCmd /\ [][NextCmd]_vars

NextRepeat ==
    \/ \E mode \in RepeatModes : CmdSetRepeatMode(mode)
    \/ \E j \in 1..MaxCalls, reply \in ModeReplies : NativeReply(j, reply)

SpecRepeat == InitCmd /\ [][NextRepeat]_vars

CommandsOf(i) == {j \in 1..Len(chan) : chan[j].call = i}
IsEmptyAdd(c) == c.op = "add" /\ c.args[1] = <<>>


\* C4: add([], i) resolves with no value and hands nothing to the native
\* module, whatever i; an add with a non-empty input hands over exactly one
\* add command; so the add commands on the channel are as many as the add
\* calls made with non-empty input.
C4_EmptyAddIssuesNoCommand ==
    /\ \A i \in 1..Len(calls) :
          calls[i].op = "add" =>
             IF IsEmptyAdd(calls[i])
             THEN /\ CommandsOf(i) = {}
                  /\ calls[i].st = "resolved" /\ calls[i].val = Undef
             ELSE /\ Cardinality(CommandsOf(i)) = 1
                  /\ \A j \in CommandsOf(i) : chan[j].op = "add"
    /\ Cardinality({j \in 1..Len(chan) : chan[j].op = "add"})
          = Cardinality({i \in 1..Len(calls) :
                            calls[i].op = "add" /\ ~IsEmptyAdd(calls[i])})

\* add([]) with and without an index, and an add of one track, were called.
C4_Witness ==
    /\ Len(calls) = 2
    /\ IsEmptyAdd(calls[1]) /\ calls[1].args[2] = Num(0)
    /\ calls[2].op = "add" /\ ~IsEmptyAdd(calls[2])
    /\ Len(chan) = 1

\* C5: a facade call hands at most one command to the native module, also
\* after that command failed; its promise is pending until the native module
\* replies, is then rejected with the module's error if the command failed and
\* resolved with the module's value if it succeeded.
C5_RepliesSurfaceUnchanged ==
    \A i \in 1..Len(calls) :
       /\ Cardinality(CommandsOf(i)) <= 1
       /\ \A j \in CommandsOf(i) :
             CASE chan[j].reply.st = "none" -> calls[i].st = "pending"
               [] chan[j].reply.st = "ok" ->
                     calls[i].st = "resolved" /\ calls[i].val = chan[j].reply.v
               [] chan[j].reply.st = "err" ->
                     calls[i].st = "rejected" /\ calls[i].val = chan[j].reply.v

\* One call was rejected with the module's error while another resolved.
C5_Witness ==
    /\ Len(calls) = 2
    /\ calls[1].st = "rejected" /\ calls[1].val = Failure(1)
    /\ calls[2].st = "resolved" /\ calls[2].val = Num(3)
    /\ Len(chan) = 2

\* C10: the commands are on the channel in the order in which the facade
\* operations were invoked, each there as soon as its call has returned and
\* whether or not earlier commands have been replied to: none is reordered,
\* merged, held back or dropped.
C10_CommandsInInvocationOrder ==
    LET issuing == {i \in 1..Len(calls) : ~IsEmptyAdd(calls[i])}
    IN /\ Len(chan) = Cardinality(issuing)
       /\ \A j \in 1..Len(chan) :
             /\ chan[j].call \in issuing
             /\ chan[j].op = calls[chan[j].call].op
             /\ Cardinality({i \in issuing : i <= chan[j].call}) = j

\* An add and a remove are both in flight, the add invoked first.
C10_Witness ==
    /\ Len(calls) = 2
    /\ calls[1].op = "add" /\ calls[2].op = "remove"
    /\ calls[1].st = "pending" /\ calls[2].st = "pending"
    /\ Len(chan) = 2

\* C2 as claimed: whatever the native module replies, the value setRepeatMode
\* resolves with is one of the repeat modes off, track, queue.
C2_ResultIsARepeatMode ==
    \A i \in 1..Len(calls) :
       (calls[i].op = "setRepeatMode" /\ calls[i].st = "resolved")
          => calls[i].val \in RepeatModes

\* C2 as amended: setRepeatMode resolves with exactly the value the native
\* module replied, equal to the requested mode or not and a repeat mode or not.
C2_ResultIsTheReply ==
    \A i \in 1..Len(calls) :
       calls[i].op = "setRepeatMode" =>
          \A j \in CommandsOf(i) :
             /\ chan[j].args = calls[i].args
             /\ chan[j].reply.st = "ok" =>
                   calls[i].st = "resolved" /\ calls[i].val = chan[j].reply.v
             /\ calls[i].st = "resolved" => chan[j].reply.st = "ok"

\* setRepeatMode(off) resolved with queue, and another call with a value that
\* is no repeat mode.
C2_Witness ==
    /\ Len(calls) = 2
    /\ calls[1].args = <<RepeatMode.Off>>
    /\ calls[1].st = "resolved" /\ calls[1].val = RepeatMode.Queue
    /\ calls[2].st = "resolved" /\ calls[2].val \notin RepeatModes


----------------------------------------------------------------------------
\* Events.  The emitter (NativeEventEmitter or DeviceEventEmitter) keeps the
\* live subscriptions; the native module emits; a subscription handle removes
\* its own subscription.

MaxSubs == 2
MaxEmits == 2
EventKinds == {"playback-state", "playback-queue-ended"}
Listeners == {1, 2}

\* emitter.addListener(event, listener)
addListener(reg, id, event, listener) ==
    Append(reg, [id |-> id, kind |-> event, listener |-> listener])

\* subscription.remove()
removeSubscription(reg, id) == SelectSeq(reg, LAMBDA r : r.id # id)

\* emitter.emit(event): the listeners of the live subscriptions for event.
RECURSIVE Deliver(_, _, _, _)
Deliver(reg, event, emission, i) ==
    IF i > Len(reg)
    THEN <<>>
    ELSE (IF reg[i].kind = event
          THEN <<[sub |-> reg[i].id, listener |-> reg[i].listener,
                  emission |-> emission]>>
          ELSE <<>>) \o Deliver(reg, event, emission, i + 1)

\* A subscription made for one fixed kind, whatever event is given.
addEventListenerOneKind(reg, id, event, listener) ==
    addListener(reg, id, "playback-state", listener)

addEventListener(reg, id, event, listener) == addListener(reg, id, event, listener)

InitEvents ==
    /\ assets = {1}
    /\ rlog = <<>>
    /\ registry = <<>>
    /\ nsubs = 0
    /\ subLog = <<>>
    /\ emitLog = <<>>
    /\ invoked = <<>>
    /\ IdleInput /\ IdleCmd /\ IdleService

AddEventListener(event, listener) ==
    /\ nsubs < MaxSubs
    /\ registry' = addEventListener(registry, nsubs + 1, event, listener)
    /\ nsubs' = nsubs + 1
    /\ subLog' = Append(subLog, [kind |-> event, listener |-> listener,
                                 from |-> Len(emitLog), until |-> -1])
    /\ UNCHANGED <<emitLog, invoked, resolveVars, inputVars, cmdVars, serviceVars>>

Unsubscribe(h) ==
    /\ h \in 1..nsubs
    /\ subLog[h].until = -1
    /\ registry' = removeSubscription(registry, h)
    /\ subLog' = [subLog EXCEPT ![h].until = Len(emitLog)]
    /\ UNCHANGED <<nsubs, emitLog, invoked, resolveVars, inputVars, cmdVars, serviceVars>>

Emit(event) ==
    /\ Len(emitLog) < MaxEmits
    /\ emitLog' = Append(emitLog, event)
    /\ invoked' = invoked \o Deliver(registry, event, Len(emitLog) + 1, 1)
    /\ UNCHANGED <<registry, nsubs, subLog, resolveVars, inputVars, cmdVars, serviceVars>>

NextEvents ==
    \/ \E event \in EventKinds, listener \in Listeners :
          AddEventListener(event, listener)
    \/ \E h \in 1..MaxSubs : Unsubscribe(h)
    \/ \E event \in EventKinds : Emit(event)

SpecEvents == InitEvents /\ [][NextEvents]_vars

Invocations(h, e) ==
    {k \in 1..Len(invoked) : invoked[k].sub = h /\ invoked[k].emission = e}

LiveAt(h, e) ==
    /\ subLog[h].from < e
    /\ subLog[h].until = -1 \/ e <= subLog[h].until

\* C9: each emission of an event kind invokes the listener of every
\* subscription for that kind that is live at that moment exactly once, and no
\* listener of a subscription for another kind, made later or unsubscribed
\* before.
C9_EmissionReachesLiveListenersOnce ==
    \A h \in 1..nsubs, e \in 1..Len(emitLog) :
       /\ Cardinality(Invocations(h, e))
             = IF subLog[h].kind = emitLog[e] /\ LiveAt(h, e) THEN 1 ELSE 0
       /\ \A k \in Invocations(h, e) : invoked[k].listener = subLog[h].listener

\* Two listeners of one kind were both invoked by the first emission, one was
\* then unsubscribed, and the second emission invoked only the other.
C9_Witness ==
    /\ nsubs = 2 /\ Len(emitLog) = 2
    /\ subLog[1].kind = subLog[2].kind
    /\ emitLog[1] = subLog[1].kind /\ emitLog[2] = subLog[1].kind
    /\ subLog[1].until = 1 /\ subLog[2].until = -1
    /\ Len(invoked) = 3

----------------------------------------------------------------------------
\* registerPlaybackService.  The call is followed through its steps: entry,
\* the evaluation of the argument factory() and setImmediate on platforms
\* other than android, AppRegistry.registerHeadlessTask on android.  Nothing
\* else runs until it has returned.

MaxRegs == 2
MaxTicks == 2
Factories == {1, 2}
Platforms == {"android", "ios", "web"}

InitService ==
    /\ assets = {1}
    /\ rlog = <<>>
    /\ platform \in Platforms
    /\ pc = "idle"
    /\ cur = 0
    /\ tick = 0
    /\ immediates = <<>>
    /\ headless = <<>>
    /\ factoryLog = <<>>
    /\ handlerLog = <<>>
    /\ regLog = <<>>
    /\ IdleInput /\ IdleCmd /\ IdleEvents

RegisterEnter(factory) ==
    /\ pc = "idle"
    /\ Len(regLog) < MaxRegs
    /\ pc' = "entered"
    /\ cur' = factory
    /\ regLog' = Append(regLog, [factory |-> factory, tick |-> tick, returned |-> FALSE])
    /\ UNCHANGED <<platform, tick, immediates, headless, factoryLog, handlerLog,
                   resolveVars, inputVars, cmdVars, eventVars>>

RegisterHeadlessTask ==
    /\ pc = "entered"
    /\ platform = "android"
    /\ headless' = Append(headless, [key |-> "TrackPlayer", factory |-> cur])
    /\ regLog' = [regLog EXCEPT ![Len(regLog)].returned = TRUE]
    /\ pc' = "idle"
    /\ UNCHANGED <<platform, cur, tick, immediates, factoryLog, handlerLog,
                   resolveVars, inputVars, cmdVars, eventVars>>

\* setImmediate(factory()): the argument is evaluated first.
RegisterCallFactory ==
    /\ pc = "entered"
    /\ platform # "android"
    /\ factoryLog' = Append(factoryLog,
                        [factory |-> cur, reg |-> Len(regLog), tick |-> tick,
                         returned |-> regLog[Len(regLog)].returned])
    /\ pc' = "called"
    /\ UNCHANGED <<platform, cur, tick, immediates, headless, handlerLog, regLog,
                   resolveVars, inputVars, cmdVars, eventVars>>

RegisterSetImmediate ==
    /\ pc = "called"
    /\ immediates' = Append(immediates, [handler |-> cur, reg |-> Len(regLog)])
    /\ regLog' = [regLog EXCEPT ![Len(regLog)].returned = TRUE]
    /\ pc' = "idle"
    /\ UNCHANGED <<platform, cur, tick, headless, factoryLog, handlerLog,
                   resolveVars, inputVars, cmdVars, eventVars>>

\* The next iteration of the event loop runs the queued immediates.
EventLoopTick ==
    /\ pc = "idle"
    /\ tick < MaxTicks
    /\ tick' = tick + 1
    /\ handlerLog' = handlerLog \o
          [i \in 1..Len(immediates) |->
              [handler |-> immediates[i].handler, reg |-> immediates[i].reg,
               tick |-> tick + 1]]
    /\ immediates' = <<>>
    /\ UNCHANGED <<platform, pc, cur, headless, factoryLog, regLog,
                   resolveVars, inputVars, cmdVars, eventVars>>

NextService ==
    \/ \E factory \in Factories : RegisterEnter(factory)
    \/ RegisterHeadlessTask
    \/ RegisterCallFactory
    \/ RegisterSetImmediate
    \/ EventLoopTick

SpecService == InitService /\ [][NextService]_vars

\* C1: on a platform other than android the factory is not invoked before
\* registerPlaybackService has returned: it is invoked once per registration,
\* in a later iteration of the event loop than the registration.
C1_FactoryDeferredPastRegistration ==
    platform # "android" =>
       /\ \A k \in 1..Len(factoryLog) :
             /\ factoryLog[k].returned
             /\ factoryLog[k].tick > regLog[factoryLog[k].reg].tick
       /\ \A r \in 1..Len(regLog) :
             Cardinality({k \in 1..Len(factoryLog) : factoryLog[k].reg = r}) <= 1


====
